---- MODULE Spec2Model ----
(***************************************************************************)
(* Model of the document ingestion pipeline                                *)
(* (app/services/ingestion_pipeline.py, chunk_service.py, vector_store.py, *)
(* indexing_pipeline.py) and of the streaming chat paths                   *)
(* (app/api/v1/routers/chat_router.py, app/services/rag_service.py).       *)
(***************************************************************************)
EXTENDS Integers, Sequences, FiniteSets, TLC

\* ------------------------------------------------------------------ bounds
\* Total number of pipeline runs started in one behaviour.
MaxRuns == 2

\* Number of chat turns asked in one behaviour.
MaxTurns == 2

\* Number of deltas the LLM provider emits in one token stream, at most.
MaxDeltas == 2

\* Number of rows of chat_messages in the behaviours of the chat history.
MaxMessages == 3

\* Last tick of the database clock in the behaviours of the chat history.
MaxTime == 2

\* Number of embed_with_cache calls in one behaviour.
MaxEmbedCalls == 3

\* Last tick of the cache's clock; one tick is half a day.
MaxCacheTime == 2

\* Number of upsert_embeddings calls each worker makes in one behaviour.
MaxUpserts == 2

\* EMBED_CACHE_TTL_SECONDS (one day), counted in ticks of the cache's clock.
EMBED_CACHE_TTL == 2

\* settings.RETRY_MAX_ATTEMPTS (its default).
RETRY_MAX_ATTEMPTS == 3

\* ---------------------------------------------------------------- universe
\* Python's None.
NULL == "null"

\* Document ids present in the documents table.
Docs == {1, 2}

\* Request workers. Spec serves requests one at a time (worker 1 only);
\* SpecConc lets both workers serve requests concurrently.
Workers == {1, 2}

\* Extracted texts the OCR step can produce: "" (a PDF with no pages),
\* a one-piece text and a two-piece text.
Texts == {"", "a", "a b"}

\* chunk_size values a caller passes, counted in pieces.
ChunkSizes == {1, 2}

\* Chat session ids.
ChatSessions == {1, 2}

\* The two streaming entry points: POST /chat/ask with stream=true, WS /chat/ws.
Transports == {"http", "ws"}

\* The content of one provider delta; "" stands for a chunk without content.
Deltas == {"", "x", "y"}

\* ------------------------------------------------------------ pure helpers
\* DocumentIngestionPipeline.STEP_PROGRESS with the .get(step, current) default.
StepProgress(step, current) ==
    CASE step = "upload" -> 5
      [] step = "ocr" -> 35
      [] step = "chunk" -> 70
      [] step = "embed_store" -> 100
      [] step = "ingest" -> 100
      [] step = "completed" -> 100
      [] step = "error" -> 0
      [] OTHER -> current

\* The leaf pieces of a cleaned text (clean_text("") = "").
Pieces(text) ==
    CASE text = "a" -> <<"a">>
      [] text = "a b" -> <<"a", "b">>
      [] OTHER -> <<>>

\* chunk_text: consecutive pieces are merged greedily while the chunk holds at
\* most chunk_size pieces; the result is the ordered list of chunk contents.
ChunkText(text, chunk_size) ==
    LET ps == Pieces(text)
    IN  IF Len(ps) = 2 /\ chunk_size >= 2
            THEN <<ps[1] \o " " \o ps[2]>>
            ELSE ps

\* Python truthiness of an Optional[str].
Falsy(s) ==
    s = NULL \/ s = ""

\* _normalize_chunk_for_index: logical_id = str(data.get("id") or
\* f"{document.id}_{chunk_index}").  A ChunkInDB carries the row's primary key
\* in "id", so the first operand wins whenever the key is non-zero.
LogicalId(chunk) ==
    IF chunk.id # 0
        THEN ToString(chunk.id)
        ELSE ToString(chunk.document_id) \o "_" \o ToString(chunk.chunk_index)

\* The stable form the payload documentation gives: "{document_id}_{chunk_index}".
StableId(d, i) ==
    ToString(d) \o "_" \o ToString(i)

\* _default_index_runner: payloads = [normalize(chunk) for chunk in chunks].
Payloads(cs, d) ==
    [i \in 1..Len(cs) |->
        [id |-> LogicalId(cs[i]),
         chunk_index |-> cs[i].chunk_index,
         document_id |-> d]]

\* ------------------------------------------------------------------- state
VARIABLES
    fileText,     \* Docs -> Texts: what extraction of the stored file yields
    doc,          \* Docs -> the documents row
    chunks,       \* the chunks table: set of rows
    points,       \* the vector collection: set of points
    nextChunkId,  \* the chunks.id sequence
    nextPointId,  \* stands for uuid4(): every point id is fresh
    runs,         \* number of runs started so far
    run,          \* Workers -> the locals of run() and the run's history
    last,         \* Docs -> what the last finished run on the document left
    chatMessages, \* the chat_messages table, in insertion order
    turns,        \* number of chat turns asked so far
    stream        \* the streamed turn being served: locals of the handler

ingestVars == <<fileText, doc, chunks, points, nextChunkId, nextPointId, runs, run, last>>

chatVars == <<chatMessages, turns, stream>>

\* State of the service calls made outside a pipeline run and a streamed turn.
VARIABLES
    now,          \* the database clock that stamps created_at (func.now())
    ask,          \* the last non-streaming ask: its outcome, the table before it
    answered,     \* ChatSessions -> number of non-streaming asks answered
    fetched,      \* the last get_messages call and the list it returned
    cacheTime,    \* the clock of the cache backend, in ticks
    cache,        \* the cache backend: text -> the entry stored under its key
    embedCalls,   \* number of embed_with_cache calls made
    embedCall,    \* the last embed_with_cache call: inputs, requests, result
    search,       \* the semantic_search call being answered: inputs and result
    reply,        \* the answer_question / stream_answer call being answered
    served,       \* the last response of a document or search endpoint
    failure,      \* the last request that failed: what was raised, what was answered
    attempt,      \* the call of a retry_transient function being made
    coll          \* the vector collection under concurrent upsert_embeddings calls

histVars == <<now, ask, answered, fetched>>

embedVars == <<cacheTime, cache, embedCalls, embedCall>>

miscVars == <<failure, attempt, coll>>

ragVars == <<search, reply, served, miscVars>>

svcVars == <<histVars, embedVars, ragVars>>

vars == <<ingestVars, chatVars, svcVars>>

\* A freshly uploaded document (file_service: status defaults to "pending").
NewDocument ==
    [status |-> "pending",
     processing_step |-> NULL,
     processing_progress |-> 0,
     processing_started_at |-> NULL,
     processing_completed_at |-> NULL,
     processing_duration_ms |-> NULL,
     error_count |-> 0,
     last_error |-> NULL,
     text_content |-> NULL,
     is_deleted |-> FALSE]

\* The record of a finished run: its outcome, its chunk_size, the logical ids
\* it returned and the chunk rows and vector points it created.
NoRun ==
    [outcome |-> "none", chunk_size |-> 0, logical_ids |-> {},
     chunk_ids |-> {}, point_ids |-> {}]

\* The locals of a worker that serves no request.
IdleRun ==
    [pc |-> "idle",
     document_id |-> 0,
     chunk_size |-> 0,
     chunks |-> <<>>,
     logical_ids |-> <<>>,
     exc |-> NULL,
     db_failed |-> FALSE,
     masked |-> NULL,
     \* history of the run, for the properties
     created |-> {},
     committed |-> <<>>,
     steps |-> <<>>,
     error_count_before |-> 0,
     calls |-> <<>>,
     prev |-> NoRun]

\* No streamed turn is being served.
NoStream ==
    [pc |-> "idle",
     transport |-> "http",
     session_id |-> 0,
     turn |-> 0,
     collected |-> <<>>,
     \* what the provider emitted and what the client received, for the properties
     emitted |-> <<>>,
     forwarded |-> <<>>,
     client |-> "connected",
     left_after |-> 0,
     cause |-> NULL]

\* No non-streaming ask was made / no get_messages call was made.
NoAsk ==
    [outcome |-> "none", session_id |-> 0, before |-> <<>>]

NoFetch ==
    [called |-> FALSE, session_id |-> 0, limit |-> 0, of |-> <<>>, rows |-> <<>>]

\* The texts handed to the embedding client.
EmbedTexts ==
    {"a", "b"}

\* The backend holds no value under the key of a text.
NoEntry ==
    [raw |-> NULL, expires |-> 0]

\* No embed_with_cache call was made.
\* The call before has not embedded the same texts successfully.
NoRepeat ==
    [is |-> FALSE, at |-> 0, result |-> <<>>, live_until |-> 0, cache_ok |-> FALSE]

\* No embed_with_cache call was made.
NoEmbedCall ==
    [outcome |-> "none", texts |-> <<>>, at |-> 0, read_ok |-> TRUE,
     cached |-> <<>>, requests |-> <<>>, provider_failed |-> FALSE,
     write |-> "none", result |-> <<>>, live_until |-> 0,
     repeat_of |-> NoRepeat]

\* No semantic_search call is being answered.
NoSearch ==
    [called |-> FALSE, top_k |-> 0, has_threshold |-> FALSE, score_threshold |-> 0,
     use_mmr |-> FALSE, mmr_lambda |-> 0, candidates |-> <<>>, hits |-> <<>>,
     total_candidates |-> 0]

\* No answer_question / stream_answer call is being answered.
NoReply ==
    [called |-> FALSE, outcome |-> "none", max_context_chars |-> 0,
     question |-> "plain", hits |-> <<>>, contexts |-> <<>>, prompt |-> <<>>,
     llm_called |-> FALSE, history |-> <<>>, max_history_messages |-> 0,
     history_block |-> <<>>]

\* No document or search endpoint has answered yet.
NoServed ==
    [kind |-> "none", document_id |-> 0, status |-> 0, docs |-> {}, deleted |-> {}]

\* A raised exception: its class and, for an AppError, its own fields.
Exc(class, status_code, code, message, details) ==
    [class |-> class, status_code |-> status_code, code |-> code,
     message |-> message, details |-> details]

\* No request has failed yet.
NoFailure ==
    [endpoint |-> "none", stage |-> "none", debug |-> FALSE,
     raised |-> Exc("none", 0, "", "", NULL),
     status_code |-> 0, code |-> "", message |-> "", details |-> NULL]

\* No call of a retry_transient function is being made.
NoAttempt ==
    [pc |-> "idle", invocations |-> 0, raised |-> <<>>, propagated |-> NULL]

\* Upsert workers that have not started; the collection does not exist.
NoCollection ==
    [exists |-> FALSE, points |-> {}, acked |-> {},
     pc |-> [w \in Workers |-> "idle"],
     calls |-> [w \in Workers |-> 0]]

Init ==
    /\ now = 1
    /\ attempt = NoAttempt
    /\ coll = NoCollection
    /\ failure = NoFailure
    /\ served = NoServed
    /\ search = NoSearch
    /\ reply = NoReply
    /\ cacheTime = 0
    /\ cache = [t \in EmbedTexts |-> NoEntry]
    /\ embedCalls = 0
    /\ embedCall = NoEmbedCall
    /\ ask = NoAsk
    /\ answered = [sid \in ChatSessions |-> 0]
    /\ fetched = NoFetch
    /\ chatMessages = <<>>
    /\ turns = 0
    /\ stream = NoStream
    /\ fileText \in [Docs -> Texts]
    /\ doc = [d \in Docs |-> NewDocument]
    /\ chunks = {}
    /\ points = {}
    /\ nextChunkId = 1
    /\ nextPointId = 1
    /\ runs = 0
    /\ run = [w \in Workers |-> IdleRun]
    /\ last = [d \in Docs |-> NoRun]

\* The chunk rows / vector points of document d.
ChunksOf(d) ==
    {c \in chunks : c.document_id = d}

PointsOf(d) ==
    {p \in points : p.document_id = d}

\* The run's history of committed (processing_progress, processing_step) values:
\* every db.commit() of the document row appends the values it wrote.
Logged(r, row) ==
    [r EXCEPT !.committed = Append(@, row.processing_progress),
              !.steps = Append(@, row.processing_step)]

\* ----------------------------------------------------------------- actions
\* run(): _get_document, then _mark_started.
MarkStartedRow(row) ==
    [row EXCEPT !.status = "processing",
                !.processing_step = "starting",
                !.processing_progress = 0,
                !.processing_started_at = "set",
                !.processing_completed_at = NULL,
                !.processing_duration_ms = NULL,
                !.last_error = NULL]

StartRun(w, d, size) ==
    /\ run[w].pc = "idle"
    /\ runs < MaxRuns
    /\ ~doc[d].is_deleted
    /\ runs' = runs + 1
    /\ doc' = [doc EXCEPT ![d] = MarkStartedRow(doc[d])]
    /\ run' = [run EXCEPT ![w] =
                  Logged([IdleRun EXCEPT !.pc = "started",
                                         !.document_id = d,
                                         !.chunk_size = size,
                                         !.error_count_before = doc[d].error_count,
                                         !.prev = last[d]],
                         MarkStartedRow(doc[d]))]
    /\ UNCHANGED <<chatVars, svcVars, fileText, chunks, points, nextChunkId, nextPointId, last>>

\* _update_progress(document, step, message).
UpdateProgressRow(row, step) ==
    [row EXCEPT !.processing_step = step,
                !.processing_progress = StepProgress(step, row.processing_progress),
                !.status = "processing"]

\* run(): self._update_progress(document, "upload", "File registered").
UpdateUpload(w) ==
    LET d == run[w].document_id
        row == UpdateProgressRow(doc[d], "upload")
    IN  /\ run[w].pc = "started"
        /\ doc' = [doc EXCEPT ![d] = row]
        /\ run' = [run EXCEPT ![w] = Logged([@ EXCEPT !.pc = "upload"], row)]
        /\ UNCHANGED <<chatVars, svcVars, fileText, chunks, points, nextChunkId, nextPointId, runs, last>>

\* run(): text = self.ocr_runner(document) or ""; document.text_content = text;
\* _update_progress(document, "ocr", ...).  The extraction may raise.
OcrStage(w) ==
    LET d == run[w].document_id
        row == UpdateProgressRow([doc[d] EXCEPT !.text_content = fileText[d]], "ocr")
    IN  /\ run[w].pc = "upload"
        /\ \E ok \in BOOLEAN :
              IF ok
                  THEN /\ doc' = [doc EXCEPT ![d] = row]
                       /\ run' = [run EXCEPT ![w] =
                              Logged([@ EXCEPT !.pc = "ocr",
                                               !.calls = Append(@, "ocr")], row)]
                  ELSE /\ doc' = doc
                       /\ run' = [run EXCEPT ![w].pc = "failing",
                                             ![w].calls = Append(@, "ocr"),
                                             ![w].exc = "ocr failed"]
        /\ UNCHANGED <<chatVars, svcVars, fileText, chunks, points, nextChunkId, nextPointId, runs, last>>

\* chunk_document: the rows [Chunk(chunk_index=idx, ...)] built from chunk_text,
\* with primary keys drawn from the chunks.id sequence.
NewChunks(d, contents, firstId) ==
    [i \in 1..Len(contents) |->
        [id |-> firstId + i - 1,
         document_id |-> d,
         chunk_index |-> i - 1,
         content |-> contents[i]]]

\* The set of elements of a sequence.
Range(seq) ==
    {seq[i] : i \in 1..Len(seq)}

\* run(): chunks = list(self.chunk_runner(document, chunk_size, chunk_overlap)),
\* that is chunk_document(update_status=False): one transaction that deletes the
\* document's chunk rows and inserts the new ones, rolled back when it raises.
ChunkStage(w) ==
    LET d == run[w].document_id
        rows == NewChunks(d, ChunkText(doc[d].text_content, run[w].chunk_size),
                          nextChunkId)
    IN  /\ run[w].pc = "ocr"
        /\ IF Falsy(doc[d].text_content)
              THEN /\ run' = [run EXCEPT ![w].pc = "failing",
                                         ![w].calls = Append(@, "chunk"),
                                         ![w].exc = "Document has no text_content. Run OCR first."]
                   /\ UNCHANGED <<chunks, nextChunkId>>
              ELSE \E ok \in BOOLEAN :
                     IF ok
                         THEN /\ chunks' = (chunks \ ChunksOf(d)) \cup Range(rows)
                              /\ nextChunkId' = nextChunkId + Len(rows)
                              /\ run' = [run EXCEPT ![w].pc = "chunked",
                                                    ![w].calls = Append(@, "chunk"),
                                                    ![w].chunks = rows]
                         ELSE /\ run' = [run EXCEPT ![w].pc = "failing",
                                                    ![w].calls = Append(@, "chunk"),
                                                    ![w].exc = "chunking failed"]
                              /\ UNCHANGED <<chunks, nextChunkId>>
        /\ UNCHANGED <<chatVars, svcVars, fileText, doc, points, nextPointId, runs, last>>

\* run(): self._update_progress(document, "chunk", "Chunking completed").
ChunkProgress(w) ==
    LET d == run[w].document_id
        row == UpdateProgressRow(doc[d], "chunk")
    IN  /\ run[w].pc = "chunked"
        /\ doc' = [doc EXCEPT ![d] = row]
        /\ run' = [run EXCEPT ![w] = Logged([@ EXCEPT !.pc = "chunk"], row)]
        /\ UNCHANGED <<chatVars, svcVars, fileText, chunks, points, nextChunkId, nextPointId, runs, last>>

\* Mutant of DeleteByDocumentId: the delete removes nothing.
DeleteByDocumentId_Nothing(ps, d) ==
    ps

\* delete_embeddings_by_document_id: the points whose payload document_id matches
\* are removed.
DeleteByDocumentId(ps, d) ==
    {p \in ps : p.document_id # d}

\* delete_embeddings_by_logical_ids: nothing happens for an empty list; otherwise
\* the points whose payload logical_id is in the list are removed.
DeleteByLogicalIds(ps, ids) ==
    IF ids = <<>>
        THEN ps
        ELSE {p \in ps : p.logical_id \notin Range(ids)}

\* upsert_embeddings: one point per id, each under a fresh uuid4, its payload the
\* metadata plus logical_id = ids[i].
NewPoints(payloads, firstId) ==
    {[pid |-> firstId + i - 1,
      logical_id |-> payloads[i].id,
      document_id |-> payloads[i].document_id,
      chunk_index |-> payloads[i].chunk_index] : i \in 1..Len(payloads)}

\* _default_index_runner, first half: the payloads are built and, when there are
\* any, delete_embeddings_by_document_id(document.id) is called (it may raise).
\* With no payloads the runner returns [] at once.
IndexDelete(w) ==
    LET d == run[w].document_id
        payloads == Payloads(run[w].chunks, d)
    IN  /\ run[w].pc = "chunk"
        /\ IF payloads = <<>>
              THEN /\ run' = [run EXCEPT ![w].pc = "indexed",
                                         ![w].calls = Append(@, "embed_store"),
                                         ![w].logical_ids = <<>>]
                   /\ points' = points
              ELSE \E ok \in BOOLEAN :
                     IF ok
                         THEN /\ points' = DeleteByDocumentId(points, d)
                              /\ run' = [run EXCEPT ![w].pc = "index_deleted",
                                                    ![w].calls = Append(@, "embed_store")]
                         ELSE /\ points' = points
                              /\ run' = [run EXCEPT ![w].pc = "failing",
                                                    ![w].calls = Append(@, "embed_store"),
                                                    ![w].exc = "Vector store unavailable"]
        /\ UNCHANGED <<chatVars, svcVars, fileText, doc, chunks, nextChunkId, nextPointId, runs, last>>

\* The ways index_chunks(payloads) can end: it returns; embed_with_cache raises;
\* the upsert raises before the store applied it; the upsert raises after the store
\* applied it (the acknowledgement is lost).
IndexOutcomes ==
    {"ok", "embed_failed", "upsert_failed", "upsert_applied_then_failed"}

\* _default_index_runner, second half: index_chunks(payloads), then
\* return [p["id"] for p in payloads]; run() assigns logical_ids only when the
\* runner returns.
IndexUpsert(w) ==
    LET d == run[w].document_id
        payloads == Payloads(run[w].chunks, d)
        new == NewPoints(payloads, nextPointId)
    IN  /\ run[w].pc = "index_deleted"
        /\ \E outcome \in IndexOutcomes :
              /\ IF outcome \in {"ok", "upsert_applied_then_failed"}
                    THEN /\ points' = points \cup new
                         /\ nextPointId' = nextPointId + Len(payloads)
                    ELSE UNCHANGED <<points, nextPointId>>
              /\ run' = [run EXCEPT ![w] =
                     IF outcome = "ok"
                         THEN [@ EXCEPT !.pc = "indexed",
                                        !.logical_ids = [i \in 1..Len(payloads) |-> payloads[i].id],
                                        !.created = {p.pid : p \in new}]
                         ELSE [@ EXCEPT !.pc = "failing",
                                        !.exc = IF outcome = "embed_failed"
                                                    THEN "Embedding provider failed"
                                                    ELSE "Vector store unavailable",
                                        !.created = IF outcome = "upsert_applied_then_failed"
                                                        THEN {p.pid : p \in new}
                                                        ELSE {}]]
        /\ UNCHANGED <<chatVars, svcVars, fileText, doc, chunks, nextChunkId, runs, last>>

\* run(): self._update_progress(document, "embed_store", "Embeddings stored").
EmbedProgress(w) ==
    LET d == run[w].document_id
        row == UpdateProgressRow(doc[d], "embed_store")
    IN  /\ run[w].pc = "indexed"
        /\ doc' = [doc EXCEPT ![d] = row]
        /\ run' = [run EXCEPT ![w] = Logged([@ EXCEPT !.pc = "embed_store"], row)]
        /\ UNCHANGED <<chatVars, svcVars, fileText, chunks, points, nextChunkId, nextPointId, runs, last>>

\* Mutant of MarkCompletedRow: processing_completed_at is not set.
MarkCompletedRow_NoTimestamp(row) ==
    [row EXCEPT !.status = "completed",
                !.processing_step = "ingest",
                !.processing_progress = 100,
                !.processing_duration_ms = "set"]

\* _mark_completed.
MarkCompletedRow(row) ==
    [row EXCEPT !.status = "completed",
                !.processing_step = "ingest",
                !.processing_progress = 100,
                !.processing_completed_at = "set",
                !.processing_duration_ms = "set"]

\* What a run leaves for the next one to be compared with.
Finished(r, outcome) ==
    [outcome |-> outcome,
     chunk_size |-> r.chunk_size,
     logical_ids |-> Range(r.logical_ids),
     chunk_ids |-> {r.chunks[i].id : i \in 1..Len(r.chunks)},
     point_ids |-> r.created]

\* run(): self._mark_completed(document, total_duration_ms); return PipelineResult.
MarkCompleted(w) ==
    LET d == run[w].document_id
        row == MarkCompletedRow(doc[d])
    IN  /\ run[w].pc = "embed_store"
        /\ doc' = [doc EXCEPT ![d] = row]
        /\ run' = [run EXCEPT ![w] = Logged([@ EXCEPT !.pc = "returned"], row)]
        /\ last' = [last EXCEPT ![d] = Finished(run[w], "completed")]
        /\ UNCHANGED <<chatVars, svcVars, fileText, chunks, points, nextChunkId, nextPointId, runs>>

\* _handle_failure: self._rollback_chunks(document.id).
RollbackChunks(w) ==
    LET d == run[w].document_id
    IN  /\ run[w].pc = "failing"
        /\ chunks' = chunks \ ChunksOf(d)
        /\ run' = [run EXCEPT ![w].pc = "chunks_rolled_back"]
        /\ UNCHANGED <<chatVars, svcVars, fileText, doc, points, nextChunkId, nextPointId, runs, last>>

\* _handle_failure: self._rollback_embeddings(logical_ids).
RollbackEmbeddings(w) ==
    /\ run[w].pc = "chunks_rolled_back"
    /\ points' = DeleteByLogicalIds(points, run[w].logical_ids)
    /\ run' = [run EXCEPT ![w].pc = "embeddings_rolled_back"]
    /\ UNCHANGED <<chatVars, svcVars, fileText, doc, chunks, nextChunkId, nextPointId, runs, last>>

\* Mutant of MarkErrorRow: the progress is taken from STEP_PROGRESS["error"].
MarkErrorRow_ProgressReset(row, exc) ==
    [row EXCEPT !.status = "error",
                !.processing_step = "error",
                !.processing_progress = StepProgress("error", row.processing_progress),
                !.processing_completed_at = "set",
                !.processing_duration_ms = "set",
                !.error_count = row.error_count + 1,
                !.last_error = exc]

\* Mutant of MarkErrorRow: error_count is set to 1 instead of incremented.
MarkErrorRow_CountSet(row, exc) ==
    [row EXCEPT !.status = "error",
                !.processing_step = "error",
                !.processing_progress = row.processing_progress,
                !.processing_completed_at = "set",
                !.processing_duration_ms = "set",
                !.error_count = 1,
                !.last_error = exc]

\* _handle_failure: the error fields (processing_progress or 0 keeps the value).
MarkErrorRow(row, exc) ==
    [row EXCEPT !.status = "error",
                !.processing_step = "error",
                !.processing_progress = row.processing_progress,
                !.processing_completed_at = "set",
                !.processing_duration_ms = "set",
                !.error_count = row.error_count + 1,
                !.last_error = exc]

\* _handle_failure: mark the document, commit; run() then re-raises.
MarkError(w) ==
    LET d == run[w].document_id
        row == MarkErrorRow(doc[d], run[w].exc)
    IN  /\ run[w].pc = "embeddings_rolled_back"
        /\ doc' = [doc EXCEPT ![d] = row]
        /\ run' = [run EXCEPT ![w] = Logged([@ EXCEPT !.pc = "raised"], row)]
        /\ last' = [last EXCEPT ![d] = Finished(run[w], "error")]
        /\ UNCHANGED <<chatVars, svcVars, fileText, chunks, points, nextChunkId, nextPointId, runs>>

\* run_document_ingestion: the response (or the error) leaves the handler and
\* the worker is free again.
Respond(w) ==
    /\ run[w].pc \in {"returned", "raised"}
    /\ run' = [run EXCEPT ![w] = IdleRun]
    /\ UNCHANGED <<chatVars, svcVars, fileText, doc, chunks, points, nextChunkId, nextPointId, runs, last>>

\* One step of worker w.
Step(w) ==
    \/ \E d \in Docs, size \in ChunkSizes : StartRun(w, d, size)
    \/ UpdateUpload(w)
    \/ OcrStage(w)
    \/ ChunkStage(w)
    \/ ChunkProgress(w)
    \/ IndexDelete(w)
    \/ IndexUpsert(w)
    \/ EmbedProgress(w)
    \/ MarkCompleted(w)
    \/ RollbackChunks(w)
    \/ RollbackEmbeddings(w)
    \/ MarkError(w)
    \/ Respond(w)

\* Requests served one at a time.
Next ==
    Step(1)

Spec ==
    Init /\ [][Next]_vars

\* The failure path when the database or the vector store fails during it.
\* _rollback_chunks: the DELETE or its commit raises; the except clause logs a
\* warning and the chunk rows stay.  The session is not rolled back.
RollbackChunksFails(w) ==
    /\ run[w].pc = "failing"
    /\ run' = [run EXCEPT ![w].pc = "chunks_rolled_back", ![w].db_failed = TRUE]
    /\ UNCHANGED <<chatVars, svcVars, fileText, doc, chunks, points, nextChunkId, nextPointId, runs, last>>

\* _rollback_embeddings: delete_embeddings_by_logical_ids raises; the except
\* clause logs a warning and the points stay.
RollbackEmbeddingsFails(w) ==
    /\ run[w].pc = "chunks_rolled_back"
    /\ run' = [run EXCEPT ![w].pc = "embeddings_rolled_back"]
    /\ UNCHANGED <<chatVars, svcVars, fileText, doc, chunks, points, nextChunkId, nextPointId, runs, last>>

\* _handle_failure: self.db.commit() of the error fields raises on the session
\* whose last statement failed; the commit stands in no try block, so its
\* exception leaves _handle_failure and run() never reaches its "raise".
MarkErrorFails(w) ==
    LET d == run[w].document_id
    IN  /\ run[w].pc = "embeddings_rolled_back"
        /\ run[w].db_failed
        /\ run' = [run EXCEPT ![w].pc = "raised", ![w].masked = "database error"]
        /\ last' = [last EXCEPT ![d] = Finished(run[w], "unmarked")]
        /\ UNCHANGED <<chatVars, svcVars, fileText, doc, chunks, points, nextChunkId, nextPointId, runs>>

\* The exception that reaches the caller of run().
Propagated(r) ==
    IF r.masked # NULL THEN r.masked ELSE r.exc

\* Requests served one at a time, with failures during the failure path.
NextFault ==
    \/ Step(1)
    \/ RollbackChunksFails(1)
    \/ RollbackEmbeddingsFails(1)
    \/ MarkErrorFails(1)

InitFault ==
    /\ Init
    /\ fileText = [d \in Docs |-> "a b"]

SpecFault ==
    InitFault /\ [][NextFault]_vars

\* Requests served concurrently by both workers (every stored file holds the
\* two-piece text).
InitConc ==
    /\ Init
    /\ fileText = [d \in Docs |-> "a b"]

NextConc ==
    \E w \in Workers : Step(w)

SpecConc ==
    InitConc /\ [][NextConc]_vars

\* ------------------------------------------------------- streaming chat
\* "".join(collected).
RECURSIVE Join(_)
Join(tokens) ==
    IF tokens = <<>>
        THEN ""
        ELSE Head(tokens) \o Join(Tail(tokens))

\* chat_service.add_message: one row appended and committed, created_at stamped
\* by the database clock.  The turn the row was written for is kept with it.
AddMessage(msgs, session_id, role, content, turn) ==
    Append(msgs, [id |-> Len(msgs) + 1,
                  session_id |-> session_id,
                  role |-> role,
                  content |-> content,
                  created_at |-> now,
                  turn |-> turn])

\* token_generator: "if delta: yield delta" hands on a delta with content only.
Yields(delta) ==
    delta # ""

\* token_stream / chat_websocket: collected.append(token).
Collect(collected, token) ==
    Append(collected, token)

\* What is appended when the token loop has ended normally:
\* add_message(db, session.id, "assistant", "".join(collected)).
PersistAnswer(msgs, st) ==
    AddMessage(msgs, st.session_id, "assistant", Join(st.collected), st.turn)

\* Mutant of PersistOnAbort: the collected tokens are stored on the way out.
PersistOnAbort_Partial(msgs, st) ==
    PersistAnswer(msgs, st)

\* What is appended when the token loop is left by an exception or the generator
\* is closed: the statement after the loop is not reached.
PersistOnAbort(msgs, st) ==
    msgs

\* ask_question (stream=true) and chat_websocket up to the token loop:
\* stream_answer(...) returned a generator, and the user message is appended
\* (at the start of token_stream, or right after stream_answer on the socket).
StartStream(t, sid) ==
    /\ stream.pc = "idle"
    /\ turns < MaxTurns
    /\ turns' = turns + 1
    /\ chatMessages' = AddMessage(chatMessages, sid, "user", "q", turns + 1)
    /\ stream' = [NoStream EXCEPT !.pc = "pulling",
                                  !.transport = t,
                                  !.session_id = sid,
                                  !.turn = turns + 1]
    /\ UNCHANGED <<ingestVars, svcVars>>

\* stream_answer(...) returned a string (document-name answer, or a provider
\* without streaming): user and assistant message are appended, and the string
\* is the response (http) or one frame (ws).
AnswerString(t, sid) ==
    /\ stream.pc = "idle"
    /\ turns < MaxTurns
    /\ turns' = turns + 1
    /\ chatMessages' = AddMessage(AddMessage(chatMessages, sid, "user", "q", turns + 1),
                                  sid, "assistant", "xy", turns + 1)
    /\ stream' = NoStream
    /\ UNCHANGED <<ingestVars, svcVars>>

\* stream_answer(...) raised (retrieval or a non-streaming provider failed):
\* nothing is appended.
AskFailed(t, sid) ==
    /\ stream.pc = "idle"
    /\ turns < MaxTurns
    /\ turns' = turns + 1
    /\ UNCHANGED <<chatMessages, stream, ingestVars, svcVars>>

\* "for token in stream_or_answer": the generator takes the provider's next
\* chunk; a delta with content is collected and yielded, one without is skipped.
PullToken(delta) ==
    /\ stream.pc = "pulling"
    /\ Len(stream.emitted) < MaxDeltas
    /\ stream' = IF Yields(delta)
                     THEN [stream EXCEPT !.emitted = Append(@, delta),
                                         !.collected = Collect(@, delta),
                                         !.pc = "sending"]
                     ELSE [stream EXCEPT !.emitted = Append(@, delta)]
    /\ UNCHANGED <<chatMessages, turns, ingestVars, svcVars>>

\* The provider call or the iteration of its stream raises: the exception
\* leaves the token loop.
ProviderFails ==
    /\ stream.pc = "pulling"
    /\ stream' = [stream EXCEPT !.pc = "aborted", !.cause = "provider"]
    /\ chatMessages' = PersistOnAbort(chatMessages, stream)
    /\ UNCHANGED <<turns, ingestVars, svcVars>>

\* "yield token" / "await websocket.send_text(token)": the token reaches the
\* client; when the client is gone the generator is closed at the yield (http)
\* or send_text raises (ws), and the token loop is left.
SendToken ==
    /\ stream.pc = "sending"
    /\ IF stream.client = "connected"
          THEN /\ stream' = [stream EXCEPT
                                 !.forwarded = Append(@, stream.collected[Len(stream.collected)]),
                                 !.pc = "pulling"]
               /\ chatMessages' = chatMessages
          ELSE /\ stream' = [stream EXCEPT !.pc = "aborted", !.cause = "disconnect"]
               /\ chatMessages' = PersistOnAbort(chatMessages, stream)
    /\ UNCHANGED <<turns, ingestVars, svcVars>>

\* The client goes away while the turn is streamed.
ClientDisconnects ==
    /\ stream.pc \in {"pulling", "sending"}
    /\ stream.client = "connected"
    /\ stream' = [stream EXCEPT !.client = "gone",
                                !.left_after = Len(stream.forwarded)]
    /\ UNCHANGED <<chatMessages, turns, ingestVars, svcVars>>

\* The provider's stream ends: the loop is left normally and
\* full_answer = "".join(collected) is appended as the assistant message.
FinishStream ==
    /\ stream.pc = "pulling"
    /\ stream' = [stream EXCEPT !.pc = "done"]
    /\ chatMessages' = PersistAnswer(chatMessages, stream)
    /\ UNCHANGED <<turns, ingestVars, svcVars>>

\* The turn is over: the response ended (http), the socket loop waits for the
\* next question or the connection is closed (ws).
EndTurn ==
    /\ stream.pc \in {"done", "aborted"}
    /\ stream' = NoStream
    /\ UNCHANGED <<chatMessages, turns, ingestVars, svcVars>>

\* The stored files play no part in the chat paths.
InitChat ==
    /\ Init
    /\ fileText = [d \in Docs |-> "a"]

NextChat ==
    \/ \E t \in Transports, sid \in ChatSessions : StartStream(t, sid)
    \/ \E t \in Transports, sid \in ChatSessions : AnswerString(t, sid)
    \/ \E t \in Transports, sid \in ChatSessions : AskFailed(t, sid)
    \/ \E delta \in Deltas : PullToken(delta)
    \/ ProviderFails
    \/ SendToken
    \/ ClientDisconnects
    \/ FinishStream
    \/ EndTurn

SpecChat ==
    InitChat /\ [][NextChat]_vars

\* ------------------------------------------------------------ chat history
\* The roles the data model allows (ChatMessage.role: user / assistant / system).
Roles ==
    {"user", "assistant", "system"}

\* The roles a direct caller of add_message passes: one the data model allows
\* and one it does not.
CallRoles ==
    {"system", "tool"}

\* The limit values a caller of get_messages passes.
Limits ==
    0..2

Min(a, b) ==
    IF a <= b THEN a ELSE b

\* .filter(ChatMessage.session_id == session_id): the session's rows, here in
\* the order they were inserted.
SessionRows(msgs, session_id) ==
    SelectSeq(msgs, LAMBDA m : m.session_id = session_id)

\* .order_by(ChatMessage.created_at.desc()): every order of the rows in which
\* created_at never increases; rows with equal created_at come in any order,
\* the statement names no second sort key.
OrderByCreatedAtDesc(rows) ==
    LET n == Len(rows)
        perms == {f \in [1..n -> 1..n] : \A i, j \in 1..n : f[i] = f[j] => i = j}
    IN  {q \in {[i \in 1..n |-> rows[f[i]]] : f \in perms} :
            \A i \in 1..(n - 1) : q[i].created_at >= q[i + 1].created_at}

\* .limit(limit).all()
Limit(q, limit) ==
    SubSeq(q, 1, Min(limit, Len(q)))

\* Mutant of Reverse: the list is handed on as fetched.
Reverse_Identity(q) ==
    q

\* [::-1]
Reverse(q) ==
    [i \in 1..Len(q) |-> q[Len(q) + 1 - i]]

\* The database clock advances.
Tick ==
    /\ now < MaxTime
    /\ now' = now + 1
    /\ UNCHANGED <<ask, answered, fetched, embedVars, ragVars, ingestVars, chatVars>>

\* Mutant of AskRaised: the question is stored before the answer is computed.
AskRaised_QuestionKept(sid) ==
    /\ Len(chatMessages) + 1 <= MaxMessages
    /\ ask' = [outcome |-> "raised", session_id |-> sid, before |-> chatMessages]
    /\ chatMessages' = AddMessage(chatMessages, sid, "user", "q", Len(chatMessages) + 1)
    /\ fetched' = NoFetch
    /\ UNCHANGED <<now, answered, turns, stream, embedVars, ragVars, ingestVars>>

\* ask_question, stream=false: answer_question(...) raised (retrieval or the LLM
\* call failed); the handler raises HTTP 500 before the "persist" statements.
AskRaised(sid) ==
    /\ ask' = [outcome |-> "raised", session_id |-> sid, before |-> chatMessages]
    /\ fetched' = NoFetch
    /\ UNCHANGED <<now, answered, chatMessages, turns, stream, embedVars, ragVars, ingestVars>>

\* ask_question, stream=false: answer_question(...) returned; the question and
\* the answer are appended, in that order.
AskAnswered(sid) ==
    /\ Len(chatMessages) + 2 <= MaxMessages
    /\ ask' = [outcome |-> "answered", session_id |-> sid, before |-> chatMessages]
    /\ answered' = [answered EXCEPT ![sid] = @ + 1]
    /\ chatMessages' =
           AddMessage(AddMessage(chatMessages, sid, "user", "q", Len(chatMessages) + 1),
                      sid, "assistant", "xy", Len(chatMessages) + 1)
    /\ fetched' = NoFetch
    /\ UNCHANGED <<now, turns, stream, embedVars, ragVars, ingestVars>>

\* A direct call add_message(db, sid, role, "m"); the row is written for no
\* turn (turn 0).
AddMessageCall(sid, role) ==
    /\ Len(chatMessages) + 1 <= MaxMessages
    /\ chatMessages' = AddMessage(chatMessages, sid, role, "m", 0)
    /\ ask' = NoAsk
    /\ fetched' = NoFetch
    /\ UNCHANGED <<now, answered, turns, stream, embedVars, ragVars, ingestVars>>

\* get_messages(db, sid, limit): filter, order_by created_at desc, limit, reverse.
GetMessages(sid, limit) ==
    /\ \E q \in OrderByCreatedAtDesc(SessionRows(chatMessages, sid)) :
           fetched' = [called |-> TRUE,
                       session_id |-> sid,
                       limit |-> limit,
                       of |-> SessionRows(chatMessages, sid),
                       rows |-> Reverse(Limit(q, limit))]
    /\ ask' = NoAsk
    /\ UNCHANGED <<now, answered, chatMessages, turns, stream, embedVars, ragVars, ingestVars>>

InitHistory ==
    /\ Init
    /\ fileText = [d \in Docs |-> "a"]

NextHistory ==
    \/ Tick
    \/ \E sid \in ChatSessions : AskRaised(sid)
    \/ \E sid \in ChatSessions : AskAnswered(sid)
    \/ \E sid \in ChatSessions, role \in CallRoles : AddMessageCall(sid, role)
    \/ \E sid \in ChatSessions, limit \in Limits : GetMessages(sid, limit)

SpecHistory ==
    InitHistory /\ [][NextHistory]_vars

\* ------------------------------------------------------- embedding client
\* The lists of texts a caller embeds: none, one text, a repeated text, two
\* different texts.
TextLists ==
    {<<>>, <<"a">>, <<"b">>, <<"a", "a">>, <<"a", "b">>}

\* The generations of the provider's model: the vectors of a request carry the
\* generation that served it.
ProviderGens ==
    {1, 2}

\* The provider's answers to one request: 0 when the call raised after its
\* retries, else the generation that served it.
ProviderAnswers ==
    {0} \cup ProviderGens

\* item.embedding for one input text of a request served by generation gen.
Embedding(text, gen) ==
    text \o "@" \o ToString(gen)

\* json.dumps(vec) / json.loads(raw)
JsonDumps(vec) ==
    "[" \o vec \o "]"

JsonLoads(raw) ==
    CHOOSE vec \in {Embedding(t, g) : t \in EmbedTexts, g \in ProviderGens} :
        JsonDumps(vec) = raw

\* The backend holds a live entry for the text: setex entries are gone once
\* their time to live has passed.
Live(c, text, time) ==
    c[text].raw # NULL /\ time < c[text].expires

\* Mutant of GetCachedEmbeddings: the values found are dropped.
GetCachedEmbeddings_AlwaysMiss(c, texts, time, read_ok) ==
    [raised |-> FALSE, values |-> [i \in 1..Len(texts) |-> NULL]]

\* Mutant of GetCachedEmbeddings: a failing mget is not caught.
GetCachedEmbeddings_Raises(c, texts, time, read_ok) ==
    [raised |-> ~read_ok,
     values |-> [i \in 1..Len(texts) |->
                    IF read_ok /\ Live(c, texts[i], time)
                        THEN JsonLoads(c[texts[i]].raw)
                        ELSE NULL]]

\* get_cached_embeddings: one mget for the keys of the texts; None for every
\* text when there is no client or mget raises; json.loads of each value found.
\* Nothing is raised to the caller.
GetCachedEmbeddings(c, texts, time, read_ok) ==
    [raised |-> FALSE,
     values |-> [i \in 1..Len(texts) |->
                    IF read_ok /\ Live(c, texts[i], time)
                        THEN JsonLoads(c[texts[i]].raw)
                        ELSE NULL]]

\* missing_indices = [i for i, v in enumerate(cached) if v is None]
MissingIndices(cached) ==
    SelectSeq([i \in 1..Len(cached) |-> i], LAMBDA i : cached[i] = NULL)

\* missing_texts = [texts[i] for i in missing_indices]
MissingTexts(texts, missing_indices) ==
    [j \in 1..Len(missing_indices) |-> texts[missing_indices[j]]]

\* The outcomes of set_cached_embeddings at the backend: written; pipeline()
\* raised; execute() raised with nothing written.
WriteOutcomes ==
    {"ok", "pipeline_failed", "execute_failed"}

\* set_cached_embeddings: setex(key, EMBED_CACHE_TTL_SECONDS, json.dumps(vec))
\* for each (text, vector), executed as one pipeline; failures are swallowed.
SetCachedEmbeddings(c, texts, vectors, time, write) ==
    IF write = "ok"
        THEN [t \in DOMAIN c |->
                 IF \E j \in 1..Len(texts) : texts[j] = t
                     THEN LET lastj == CHOOSE j \in 1..Len(texts) :
                                          /\ texts[j] = t
                                          /\ \A k \in 1..Len(texts) : texts[k] = t => k <= j
                          IN  [raw |-> JsonDumps(vectors[lastj]),
                               expires |-> time + EMBED_CACHE_TTL]
                     ELSE c[t]]
        ELSE c

\* Mutant of Merge: the new vectors are written from the front of the list.
Merge_FromFront(cached, missing_indices, new_vectors) ==
    [i \in 1..Len(cached) |->
        IF i <= Len(new_vectors) THEN new_vectors[i] ELSE cached[i]]

\* "for i in missing_indices: cached[i] = new_vectors[j]; j += 1"
Merge(cached, missing_indices, new_vectors) ==
    [i \in 1..Len(cached) |->
        IF \E j \in 1..Len(missing_indices) : missing_indices[j] = i
            THEN new_vectors[CHOOSE j \in 1..Len(missing_indices) : missing_indices[j] = i]
            ELSE cached[i]]

\* The time until which every text of the list has a live entry in the cache
\* (0 when one has none).
LiveUntil(c, texts) ==
    IF \E i \in 1..Len(texts) : c[texts[i]].raw = NULL
        THEN 0
        ELSE IF texts = <<>>
                 THEN MaxCacheTime + EMBED_CACHE_TTL + 1
                 ELSE LET least == CHOOSE i \in 1..Len(texts) :
                                       \A k \in 1..Len(texts) :
                                           c[texts[i]].expires <= c[texts[k]].expires
                      IN  c[texts[least]].expires

\* The clock of the cache backend advances.
CacheTick ==
    /\ cacheTime < MaxCacheTime
    /\ cacheTime' = cacheTime + 1
    /\ UNCHANGED <<cache, embedCalls, embedCall, histVars, ragVars, ingestVars, chatVars>>

\* embed_with_cache(texts): read the cache, request the missing texts from the
\* provider in one call, write the new vectors to the cache, merge.
EmbedWithCache(texts, read_ok, answer, write) ==
    LET read == GetCachedEmbeddings(cache, texts, cacheTime, read_ok)
        cached == read.values
        call == [outcome |-> "raised", texts |-> texts, at |-> cacheTime,
                 read_ok |-> read_ok, cached |-> cached, requests |-> <<>>,
                 provider_failed |-> FALSE, write |-> "none",
                 result |-> <<>>, live_until |-> 0,
                 repeat_of |-> IF embedCall.outcome = "ok" /\ embedCall.texts = texts
                                   THEN [is |-> TRUE,
                                         at |-> embedCall.at,
                                         result |-> embedCall.result,
                                         live_until |-> embedCall.live_until,
                                         cache_ok |-> /\ embedCall.read_ok
                                                      /\ embedCall.write \in {"none", "ok"}]
                                   ELSE NoRepeat]
    IN  /\ embedCalls < MaxEmbedCalls
        /\ embedCalls' = embedCalls + 1
        /\ IF read.raised
              THEN /\ embedCall' = call
                   /\ cache' = cache
              ELSE LET missing_indices == MissingIndices(cached)
                       missing_texts == MissingTexts(texts, missing_indices)
                       new_vectors == [j \in 1..Len(missing_texts) |->
                                          Embedding(missing_texts[j], answer)]
                   IN  IF missing_texts = <<>>
                           THEN /\ cache' = cache
                                /\ embedCall' = [call EXCEPT
                                       !.outcome = "ok",
                                       !.result = cached,
                                       !.live_until = LiveUntil(cache, texts)]
                           ELSE IF answer = 0
                                    THEN /\ cache' = cache
                                         /\ embedCall' = [call EXCEPT
                                                !.requests = <<missing_texts>>,
                                                !.provider_failed = TRUE]
                                    ELSE /\ cache' = SetCachedEmbeddings(
                                                cache, missing_texts, new_vectors,
                                                cacheTime, write)
                                         /\ embedCall' = [call EXCEPT
                                                !.outcome = "ok",
                                                !.requests = <<missing_texts>>,
                                                !.write = write,
                                                !.result = Merge(cached, missing_indices,
                                                                 new_vectors),
                                                !.live_until = LiveUntil(cache', texts)]
        /\ UNCHANGED <<cacheTime, histVars, ragVars, ingestVars, chatVars>>

InitEmbed ==
    /\ Init
    /\ fileText = [d \in Docs |-> "a"]

NextEmbed ==
    \/ CacheTick
    \/ \E texts \in TextLists, read_ok \in BOOLEAN, answer \in ProviderAnswers,
          write \in WriteOutcomes :
           EmbedWithCache(texts, read_ok, answer, write)

SpecEmbed ==
    InitEmbed /\ [][NextEmbed]_vars

\* ---------------------------------------------------------------- retrieval
\* The points the vector store can return for the query, whose vector has the
\* direction x.  A vector is one of the directions x, y, xy (the diagonal);
\* similarities and scores are counted in hundredths, and the score the store
\* gives a point is its cosine similarity to the query.  text_len is the length
\* of the payload's text (0: no text); named and has_document_id tell whether
\* the payload carries a document name and a document id; point 4 has the
\* vector of point 1 and no payload.
SearchPoints ==
    {[id |-> 1, score |-> 100, has_score |-> TRUE, vector |-> "x", text_len |-> 3,
      named |-> TRUE, has_document_id |-> TRUE],
     [id |-> 2, score |-> 71, has_score |-> TRUE, vector |-> "xy", text_len |-> 2,
      named |-> FALSE, has_document_id |-> TRUE],
     [id |-> 3, score |-> 0, has_score |-> TRUE, vector |-> "y", text_len |-> 4,
      named |-> FALSE, has_document_id |-> TRUE],
     [id |-> 4, score |-> 100, has_score |-> TRUE, vector |-> "x", text_len |-> 0,
      named |-> FALSE, has_document_id |-> FALSE]}

\* The store orders its result by descending score.
OrderedByScore(list) ==
    \A i, j \in 1..Len(list) : i < j => list[i].score >= list[j].score

\* What the collection holds for a query, in the store's order: up to three
\* different points.
StoreLists ==
    {list \in {<<>>} \cup {<<p>> : p \in SearchPoints}
                  \cup {pq \in SearchPoints \X SearchPoints : pq[1] # pq[2]}
                  \cup {pqr \in SearchPoints \X SearchPoints \X SearchPoints :
                            pqr[1] # pqr[2] /\ pqr[1] # pqr[3] /\ pqr[2] # pqr[3]} :
         OrderedByScore(list)}

\* top_k, fetch_k (0: not given), score_threshold and mmr_lambda of a caller.
TopKs ==
    {1, 2, 3}

FetchKs ==
    {0, 1, 2, 3}

Thresholds ==
    {0, 80}

Lambdas ==
    {0, 50, 100}

Max(a, b) ==
    IF a >= b THEN a ELSE b

\* "p.score or 0"
ScoreOrZero(p) ==
    IF p.has_score THEN p.score ELSE 0

\* candidate_limit = fetch_k or max(top_k * 3, top_k)
CandidateLimit(top_k, fetch_k) ==
    IF fetch_k # 0 THEN fetch_k ELSE Max(top_k * 3, top_k)

\* search_similar: the store returns at most limit points, in its order; it
\* applies the score threshold it was given when it enforces thresholds.
SearchSimilar(stored, limit, has_threshold, score_threshold, enforced) ==
    LET kept == IF has_threshold /\ enforced
                    THEN SelectSeq(stored, LAMBDA p : ScoreOrZero(p) >= score_threshold)
                    ELSE stored
    IN  SubSeq(kept, 1, Min(limit, Len(kept)))

\* Mutant of ThresholdFilter: the store is trusted to have applied the threshold.
ThresholdFilter_Trusting(points_, has_threshold, score_threshold) ==
    points_

\* "if score_threshold is not None:
\*      points = [p for p in points if (p.score or 0) >= score_threshold]"
ThresholdFilter(points_, has_threshold, score_threshold) ==
    IF has_threshold
        THEN SelectSeq(points_, LAMBDA p : ScoreOrZero(p) >= score_threshold)
        ELSE points_

\* cosine_similarity of two of the directions, in hundredths (0 when a vector
\* is missing or zero).
CosineSimilarity(a, b) ==
    IF a = "none" \/ b = "none"
        THEN 0
        ELSE IF a = b
                 THEN 100
                 ELSE IF a = "xy" \/ b = "xy" THEN 71 ELSE 0

\* max(cosine_similarity(cand.vector, s.vector) for s in selected), 0.0 when
\* nothing is selected yet.
SimToSelected(cand, selected) ==
    IF selected = <<>>
        THEN 0
        ELSE LET sims == {CosineSimilarity(cand.vector, selected[i].vector) :
                              i \in 1..Len(selected)}
             IN  CHOOSE m \in sims : \A o \in sims : m >= o

\* The loop with the last of the candidates of equal score taken.
RECURSIVE MmrLoop_LastOfTies(_, _, _, _)
MmrLoop_LastOfTies(selected, pool, top_k, lambda_mult) ==
    IF pool = <<>> \/ Len(selected) >= top_k
        THEN selected
        ELSE LET mmr(i) == lambda_mult * CosineSimilarity("x", pool[i].vector)
                               - (100 - lambda_mult) * SimToSelected(pool[i], selected)
                 best == CHOOSE i \in 1..Len(pool) :
                             \A j \in 1..Len(pool) :
                                 /\ mmr(i) >= mmr(j)
                                 /\ mmr(i) = mmr(j) => i >= j
             IN  MmrLoop_LastOfTies(Append(selected, pool[best]),
                                    [k \in 1..(Len(pool) - 1) |->
                                        IF k < best THEN pool[k] ELSE pool[k + 1]],
                                    top_k, lambda_mult)

\* The while loop of mmr_rerank: the candidate with the best score is moved
\* from the pool to the selection (the stable descending sort puts the first
\* of equal scores in front).
RECURSIVE MmrLoop(_, _, _, _)
MmrLoop(selected, pool, top_k, lambda_mult) ==
    IF pool = <<>> \/ Len(selected) >= top_k
        THEN selected
        ELSE LET mmr(i) == lambda_mult * CosineSimilarity("x", pool[i].vector)
                               - (100 - lambda_mult) * SimToSelected(pool[i], selected)
                 best == CHOOSE i \in 1..Len(pool) :
                             \A j \in 1..Len(pool) :
                                 /\ mmr(i) >= mmr(j)
                                 /\ mmr(i) = mmr(j) => i <= j
             IN  MmrLoop(Append(selected, pool[best]),
                         [k \in 1..(Len(pool) - 1) |->
                             IF k < best THEN pool[k] ELSE pool[k + 1]],
                         top_k, lambda_mult)

\* The rerank run over the candidates in the opposite order.
MmrRerank_Reversed(candidates, top_k, lambda_mult) ==
    MmrLoop(<<>>, [i \in 1..Len(candidates) |-> candidates[Len(candidates) + 1 - i]],
            top_k, lambda_mult)

\* mmr_rerank(query_vec, candidates, top_k, lambda_mult); the query vector has
\* the direction x.
MmrRerank(candidates, top_k, lambda_mult) ==
    MmrLoop(<<>>, candidates, top_k, lambda_mult)

\* RetrievalHit(id=p.id, score=p.score or 0.0, text=payload.get("text"),
\*              payload=p.payload or {})
RetrievalHit(p) ==
    [id |-> p.id, score |-> ScoreOrZero(p), text_len |-> p.text_len,
     named |-> p.named, has_document_id |-> p.has_document_id]

\* semantic_search, given the list search_similar returned.
SemanticSearch(candidates, top_k, has_threshold, score_threshold, use_mmr, mmr_lambda) ==
    LET points_ == ThresholdFilter(candidates, has_threshold, score_threshold)
        reranked == IF use_mmr
                        THEN MmrRerank(points_, top_k, mmr_lambda)
                        ELSE SubSeq(points_, 1, Min(top_k, Len(points_)))
    IN  [hits |-> [i \in 1..Len(reranked) |-> RetrievalHit(reranked[i])],
         used_mmr |-> use_mmr,
         total_candidates |-> Len(points_)]

\* No call of the retrieval and answer services is being answered.
RagIdle ==
    ~search.called /\ ~reply.called

\* POST /search: semantic_search with the caller's parameters; SearchRequest
\* rejects a fetch_k below top_k.
SearchEndpoint(stored, enforced, top_k, fetch_k, has_threshold, score_threshold, use_mmr, mmr_lambda) ==
    LET candidates == SearchSimilar(stored, CandidateLimit(top_k, fetch_k),
                                    has_threshold, score_threshold, enforced)
        result == SemanticSearch(candidates, top_k, has_threshold, score_threshold,
                                 use_mmr, mmr_lambda)
    IN  /\ RagIdle
        /\ fetch_k = 0 \/ fetch_k >= top_k
        /\ search' = [called |-> TRUE,
                      top_k |-> top_k,
                      has_threshold |-> has_threshold,
                      score_threshold |-> score_threshold,
                      use_mmr |-> result.used_mmr,
                      mmr_lambda |-> mmr_lambda,
                      candidates |-> candidates,
                      hits |-> result.hits,
                      total_candidates |-> result.total_candidates]
        /\ UNCHANGED <<reply, served, miscVars, histVars, embedVars, ingestVars, chatVars>>

\* The filters argument of a chat request: none, a SearchFilter, or a
\* SearchFilter with document_id set.
FilterKinds ==
    {"none", "filter", "filter_document_id"}

\* The question asks for the document's name, or for something else.
QuestionKinds ==
    {"plain", "document_name"}

\* max_context_chars of a caller, counted in the unit of text_len; the
\* websocket endpoint takes any integer.
ContextBudgets ==
    {-1, 0, 2, 3, 6}

LlmOutcomes ==
    {"ok", "fails"}

\* search_similar iterates filter_metadata.items() when it is given truthy
\* filters and no custom filter; a SearchFilter has no items().
FilterMetadataRaises(filters) ==
    filters # "none"

\* Mutant of TruncateContexts: every hit that fits the budget on its own is kept.
TruncateContexts_Skip(contexts, max_chars) ==
    SelectSeq(contexts, LAMBDA hit : hit.text_len <= max_chars)

\* The loop of _truncate_contexts: it stops at the first hit that would take
\* the total over max_chars.
RECURSIVE TruncateLoop(_, _, _, _)
TruncateLoop(contexts, kept, total, max_chars) ==
    IF contexts = <<>>
        THEN kept
        ELSE LET hit == Head(contexts)
                 extra == hit.text_len
             IN  IF total + extra > max_chars
                     THEN kept
                     ELSE TruncateLoop(Tail(contexts), Append(kept, hit),
                                       total + extra, max_chars)

\* _truncate_contexts(contexts, max_chars)
TruncateContexts(contexts, max_chars) ==
    TruncateLoop(contexts, <<>>, 0, max_chars)

\* _build_prompt_messages: the context block lists the contexts in order.
BuildPromptMessages(contexts) ==
    [i \in 1..Len(contexts) |-> contexts[i].id]

\* _maybe_answer_document_name: TRUE when it returns an answer.  The names come
\* from the contexts' payloads, else from the documents table, looked up by
\* filters.document_id or by the contexts' document ids; db_named tells
\* whether the table has a name for them.
MaybeAnswerDocumentName(question, contexts, filters, db_named) ==
    /\ question = "document_name"
    /\ \/ \E i \in 1..Len(contexts) : contexts[i].named
       \/ /\ db_named
          /\ IF filters = "filter_document_id"
                 THEN TRUE
                 ELSE \E i \in 1..Len(contexts) : contexts[i].has_document_id

\* The chat messages a history can hold.
HistoryMessages ==
    <<[role |-> "user", content |-> "q1"],
      [role |-> "assistant", content |-> "a1"],
      [role |-> "user", content |-> "q2"]>>

\* The history argument: the first n of the messages above.
Histories ==
    {SubSeq(HistoryMessages, 1, n) : n \in 0..Len(HistoryMessages)}

\* max_history_messages of a caller (ChatRequest: 0..50; the websocket passes
\* the same number to get_messages as its limit first).
HistoryLimits ==
    {0, 1, 2, 4}

\* seq[start:] of Python.
SliceFrom(seq, start) ==
    LET n == Len(seq)
        first == IF start < 0 THEN Max(n + start, 0) ELSE Min(start, n)
    IN  SubSeq(seq, first + 1, n)

\* Mutant of TrimHistory: the first messages are kept instead of the last.
TrimHistory_Oldest(history, max_history_messages) ==
    SubSeq(history, 1, Min(max_history_messages, Len(history)))

\* "list(history or [])[-max_history_messages:] if max_history_messages else []"
TrimHistory(history, max_history_messages) ==
    IF max_history_messages # 0
        THEN SliceFrom(history, -max_history_messages)
        ELSE <<>>

\* _format_history: one line "{role}: {content}" per message, in order.
FormatHistory(history) ==
    [i \in 1..Len(history) |-> history[i].role \o ": " \o history[i].content]

\* The semantic_search call that opens answer_question and stream_answer.
AnswerSearch(stored, enforced, top_k, has_threshold, score_threshold, use_mmr, mmr_lambda, filters) ==
    LET candidates == SearchSimilar(stored, CandidateLimit(top_k, 0),
                                    has_threshold, score_threshold, enforced)
        result == SemanticSearch(candidates, top_k, has_threshold, score_threshold,
                                 use_mmr, mmr_lambda)
    IN  /\ RagIdle
        /\ reply' = IF FilterMetadataRaises(filters)
                        THEN [NoReply EXCEPT !.called = TRUE, !.outcome = "raised"]
                        ELSE [NoReply EXCEPT !.called = TRUE, !.outcome = "searched",
                                             !.hits = result.hits]
        /\ UNCHANGED <<search, served, miscVars, histVars, embedVars, ingestVars, chatVars>>

\* answer_question and stream_answer after the search, up to the call of the
\* provider: truncate, trim the history, build the prompt, answer a
\* document-name question directly or call the LLM.  (filters is None on
\* every call that gets here.)
AnswerQuestion(max_context_chars, history, max_history_messages, question, db_named, llm) ==
    LET contexts == TruncateContexts(reply.hits, max_context_chars)
        trimmed_history == TrimHistory(history, max_history_messages)
        messages == BuildPromptMessages(contexts)
        short == MaybeAnswerDocumentName(question, contexts, "none", db_named)
    IN  /\ reply.called
        /\ reply.outcome = "searched"
        /\ reply' = [called |-> TRUE,
                     outcome |-> IF short
                                     THEN "document_name"
                                     ELSE IF llm = "ok" THEN "answered"
                                                        ELSE "llm_failed",
                     max_context_chars |-> max_context_chars,
                     question |-> question,
                     hits |-> reply.hits,
                     contexts |-> contexts,
                     prompt |-> messages,
                     llm_called |-> ~short,
                     history |-> history,
                     max_history_messages |-> max_history_messages,
                     history_block |-> FormatHistory(trimmed_history)]
        /\ UNCHANGED <<search, served, miscVars, histVars, embedVars, ingestVars, chatVars>>

\* The response is returned to the caller.
RagReturn ==
    /\ ~RagIdle
    /\ reply.outcome # "searched"
    /\ search' = NoSearch
    /\ reply' = NoReply
    /\ UNCHANGED <<served, miscVars, histVars, embedVars, ingestVars, chatVars>>

InitRag ==
    /\ Init
    /\ fileText = [d \in Docs |-> "a"]

NextRag ==
    \/ /\ RagIdle
       /\ \E stored \in StoreLists, enforced \in BOOLEAN, top_k \in TopKs,
             fetch_k \in FetchKs, has_threshold \in BOOLEAN,
             score_threshold \in Thresholds, use_mmr \in BOOLEAN,
             mmr_lambda \in Lambdas :
              SearchEndpoint(stored, enforced, top_k, fetch_k, has_threshold,
                             score_threshold, use_mmr, mmr_lambda)
    \/ /\ RagIdle
       /\ \E stored \in StoreLists, enforced \in BOOLEAN, top_k \in TopKs,
             has_threshold \in BOOLEAN, score_threshold \in Thresholds,
             use_mmr \in BOOLEAN, mmr_lambda \in Lambdas, filters \in FilterKinds :
              AnswerSearch(stored, enforced, top_k, has_threshold, score_threshold,
                           use_mmr, mmr_lambda, filters)
    \/ \E max_context_chars \in ContextBudgets, history \in Histories,
          max_history_messages \in HistoryLimits, question \in QuestionKinds,
          db_named \in BOOLEAN, llm \in LlmOutcomes :
           AnswerQuestion(max_context_chars, history, max_history_messages,
                          question, db_named, llm)
    \/ RagReturn

SpecRag ==
    InitRag /\ [][NextRag]_vars

\* ---------------------------------------------------- documents and deletion
\* The documents that are soft-deleted.
Deleted ==
    {d \in Docs : doc[d].is_deleted}

\* A response of a document or search endpoint: the documents it returns (or
\* whose content it returns) and, for the properties, the documents that were
\* soft-deleted when it was given.
Response(kind, d, status, docs) ==
    [kind |-> kind, document_id |-> d, status |-> status, docs |-> docs,
     deleted |-> Deleted]

\* No pipeline run is being served (requests are served one at a time).
NoRequest ==
    run[1].pc = "idle"

\* DELETE /documents/{id}: 404 for a deleted document; otherwise the row is
\* marked and returned.  Chunk rows and vector points are left as they are.
DeleteDocument(d) ==
    /\ NoRequest
    /\ IF doc[d].is_deleted
          THEN /\ served' = Response("delete", d, 404, {})
               /\ doc' = doc
          ELSE /\ doc' = [doc EXCEPT ![d].is_deleted = TRUE, ![d].status = "deleted"]
               /\ served' = Response("delete", d, 200, {})
    /\ UNCHANGED <<search, reply, miscVars, histVars, embedVars, chatVars, fileText, chunks,
                   points, nextChunkId, nextPointId, runs, run, last>>

\* GET /documents: the rows with is_deleted = false.
ListDocuments ==
    /\ NoRequest
    /\ served' = Response("list", 0, 200, {d \in Docs : ~doc[d].is_deleted})
    /\ UNCHANGED <<search, reply, miscVars, histVars, embedVars, chatVars, ingestVars>>

\* GET /documents/{id}: 404 unless the row has is_deleted = false.
GetDocument(d) ==
    /\ NoRequest
    /\ served' = IF doc[d].is_deleted
                     THEN Response("get", d, 404, {})
                     ELSE Response("get", d, 200, {d})
    /\ UNCHANGED <<search, reply, miscVars, histVars, embedVars, chatVars, ingestVars>>

\* POST /documents/{id}/ingest on a deleted document: _get_document raises
\* ValueError before anything is written, the handler answers not_found.
IngestNotFound(d) ==
    /\ NoRequest
    /\ doc[d].is_deleted
    /\ served' = Response("ingest", d, 404, {})
    /\ UNCHANGED <<search, reply, miscVars, histVars, embedVars, chatVars, ingestVars>>

\* The document_id filters of a search: 0 stands for no filter.
DocumentFilters ==
    {0} \cup Docs

\* POST /search and the retrieval of a chat question: the hits are top_k of
\* the points of the collection that match the filter, whichever the store
\* ranks first; each hit carries its payload, document_id included.
SearchDocuments(kind, document_filter, top_k) ==
    LET matching == IF document_filter = 0
                        THEN points
                        ELSE {p \in points : p.document_id = document_filter}
        k == Min(top_k, Cardinality(matching))
    IN  /\ NoRequest
        /\ \E hits \in SUBSET matching :
               /\ Cardinality(hits) = k
               /\ served' = Response(kind, document_filter, 200,
                                     {p.document_id : p \in hits})
        /\ UNCHANGED <<search, reply, miscVars, histVars, embedVars, chatVars, ingestVars>>

InitDoc ==
    /\ Init
    /\ fileText = [d \in Docs |-> "a"]

NextDoc ==
    \/ Step(1)
    \/ \E d \in Docs : DeleteDocument(d)
    \/ ListDocuments
    \/ \E d \in Docs : GetDocument(d)
    \/ \E d \in Docs : IngestNotFound(d)
    \/ \E kind \in {"search", "chat"}, document_filter \in DocumentFilters,
          top_k \in {1, 2} :
           SearchDocuments(kind, document_filter, top_k)

SpecDoc ==
    InitDoc /\ [][NextDoc]_vars

\* ------------------------------------------------------------ error handling
\* The exceptions a service call can raise while a request is served: the
\* domain errors of app/core/errors.py and two exceptions that are not domain
\* errors.
RaisedErrors ==
    {Exc("AppError", 404, "not_found", "Not found", NULL),
     Exc("AppError", 400, "bad_request", "Bad request", NULL),
     Exc("AppError", 409, "conflict", "Conflict", NULL),
     Exc("AppError", 502, "upstream_error", "Vector store unavailable", "provider"),
     Exc("AppError", 502, "upstream_error", "Embedding provider failed", "provider"),
     Exc("AppError", 503, "dependency_missing", "Optional dependency is not installed",
         "dependency"),
     Exc("ValueError", 0, "", "Document has no text_content. Run OCR first.", NULL),
     Exc("RuntimeError", 0, "", "connection reset", NULL)}

\* The endpoints whose handlers call the services, and the service call that
\* raises.
FailingEndpoints ==
    {"ingest", "search", "chat_ask", "chat_ask_stream"}

FailingStages ==
    {"embedding", "vector_store", "llm"}

\* The exception that leaves the endpoint's handler.  run_document_ingestion
\* turns a ValueError into NotFoundError(str(exc)); ask_question wraps the
\* call of answer_question / stream_answer in "except Exception as exc: raise
\* HTTPException(status_code=500, detail=str(exc))"; the search handler has no
\* except clause.
HandlerRaises(endpoint, exc) ==
    CASE endpoint = "ingest" ->
             IF exc.class = "ValueError"
                 THEN Exc("AppError", 404, "not_found", exc.message, NULL)
                 ELSE exc
      [] endpoint \in {"chat_ask", "chat_ask_stream"} ->
             Exc("HTTPException", 500, "", exc.message, NULL)
      [] OTHER -> exc

\* _status_code_to_code
StatusCodeToCode(status_code) ==
    CASE status_code = 400 -> "bad_request"
      [] status_code = 401 -> "unauthorized"
      [] status_code = 403 -> "forbidden"
      [] status_code = 404 -> "not_found"
      [] status_code = 409 -> "conflict"
      [] status_code = 422 -> "validation_error"
      [] status_code = 429 -> "rate_limited"
      [] status_code = 500 -> "internal_error"
      [] status_code = 502 -> "upstream_error"
      [] status_code = 503 -> "service_unavailable"
      [] OTHER -> "http_error"

\* register_exception_handlers: the error envelope each handler builds
\* (app_error_handler, http_exception_handler with a string detail,
\* unhandled_exception_handler).
ErrorResponse(exc, debug) ==
    CASE exc.class = "AppError" ->
             [status_code |-> exc.status_code, code |-> exc.code,
              message |-> exc.message, details |-> exc.details]
      [] exc.class = "HTTPException" ->
             [status_code |-> exc.status_code,
              code |-> StatusCodeToCode(exc.status_code),
              message |-> exc.message, details |-> NULL]
      [] OTHER ->
             [status_code |-> 500, code |-> "internal_error",
              message |-> IF debug THEN exc.message ELSE "Internal server error",
              details |-> IF debug THEN exc.class ELSE NULL]

\* A request to the endpoint during which the service call of the stage
\* raises; debug is settings.DEBUG.
RequestFails(endpoint, stage, exc, debug) ==
    LET response == ErrorResponse(HandlerRaises(endpoint, exc), debug)
    IN  /\ endpoint = "search" => stage # "llm"
        /\ endpoint = "ingest" => stage # "llm"
        /\ failure' = [endpoint |-> endpoint, stage |-> stage, debug |-> debug,
                        raised |-> exc,
                        status_code |-> response.status_code,
                        code |-> response.code,
                        message |-> response.message,
                        details |-> response.details]
        /\ UNCHANGED <<attempt, coll, search, reply, served, histVars, embedVars, ingestVars, chatVars>>

InitErr ==
    /\ Init
    /\ fileText = [d \in Docs |-> "a"]

NextErr ==
    \E endpoint \in FailingEndpoints, stage \in FailingStages, exc \in RaisedErrors,
       debug \in BOOLEAN :
        RequestFails(endpoint, stage, exc, debug)

SpecErr ==
    InitErr /\ [][NextErr]_vars

\* -------------------------------------------------------------------- retry
\* What an attempt of the wrapped function can raise: a domain error (its
\* status_code is 502), a timeout, a connection error, a provider's
\* rate-limit error, exceptions
\* carrying an HTTP status_code, and a ValueError.
AttemptErrors ==
    {[class |-> "AppError", status_code |-> 502],
     [class |-> "TimeoutError", status_code |-> 0],
     [class |-> "ConnectionError", status_code |-> 0],
     [class |-> "RateLimitError", status_code |-> 0],
     [class |-> "StatusError", status_code |-> 429],
     [class |-> "StatusError", status_code |-> 404],
     [class |-> "ValueError", status_code |-> 0]}

\* Mutant of IsTransientException: the AppError test is missing, so a domain
\* error is classified by its status_code.
IsTransientException_NoAppErrorTest(exc) ==
    \/ exc.class \in {"TimeoutError", "OSError", "ConnectionError", "HTTPError"}
    \/ exc.status_code \in {408, 429, 500, 502, 503, 504}
    \/ exc.class \in {"RateLimitError", "APIConnectionError", "APITimeoutError",
                       "InternalServerError"}

\* _is_transient_exception
IsTransientException(exc) ==
    IF exc.class = "AppError"
        THEN FALSE
        ELSE \/ exc.class \in {"TimeoutError", "OSError", "ConnectionError", "HTTPError"}
             \/ exc.status_code \in {408, 429, 500, 502, 503, 504}
             \/ exc.class \in {"RateLimitError", "APIConnectionError",
                                "APITimeoutError", "InternalServerError"}

\* A retry_transient function is called.
CallWrapped ==
    /\ attempt.pc = "idle"
    /\ attempt' = [NoAttempt EXCEPT !.pc = "running"]
    /\ UNCHANGED <<failure, coll, search, reply, served, histVars, embedVars, ingestVars, chatVars>>

\* An attempt of the function returns: the call returns its value.
AttemptReturns ==
    /\ attempt.pc = "running"
    /\ attempt' = [attempt EXCEPT !.pc = "returned", !.invocations = @ + 1]
    /\ UNCHANGED <<failure, coll, search, reply, served, histVars, embedVars, ingestVars, chatVars>>

\* An attempt raises exc.  retry(reraise=True, retry=retry_if_exception(
\* _is_transient_exception), stop=stop_after_attempt(RETRY_MAX_ATTEMPTS)): the
\* exception is raised when it is not transient or when the attempt number has
\* reached the maximum; otherwise the wrapper sleeps and tries again.
AttemptRaises(exc) ==
    LET n == attempt.invocations + 1
        again == IsTransientException(exc) /\ ~(n >= RETRY_MAX_ATTEMPTS)
    IN  /\ attempt.pc = "running"
        /\ attempt' = [pc |-> IF again THEN "running" ELSE "raised",
                       invocations |-> n,
                       raised |-> Append(attempt.raised, exc),
                       propagated |-> IF again THEN NULL ELSE exc.class]
        /\ UNCHANGED <<failure, coll, search, reply, served, histVars, embedVars, ingestVars, chatVars>>

\* The caller goes on.
CallEnds ==
    /\ attempt.pc \in {"returned", "raised"}
    /\ attempt' = NoAttempt
    /\ UNCHANGED <<failure, coll, search, reply, served, histVars, embedVars, ingestVars, chatVars>>

InitRetry ==
    /\ Init
    /\ fileText = [d \in Docs |-> "a"]

NextRetry ==
    \/ CallWrapped
    \/ AttemptReturns
    \/ \E exc \in AttemptErrors : AttemptRaises(exc)
    \/ CallEnds

SpecRetry ==
    InitRetry /\ [][NextRetry]_vars

\* ------------------------------------------------- collection and upserts
\* The point worker w upserts in its k-th call.
UpsertPoint(w, k) ==
    <<w, k>>

\* upsert_embeddings begins (ids is not empty, the lengths agree).
UpsertBegins(w) ==
    /\ coll.pc[w] = "idle"
    /\ coll.calls[w] < MaxUpserts
    /\ coll' = [coll EXCEPT !.pc[w] = "ensure", !.calls[w] = @ + 1]
    /\ UNCHANGED <<failure, attempt, search, reply, served, histVars, embedVars, ingestVars, chatVars>>

\* ensure_collection: "if _collection_exists(): return".
CollectionExists(w) ==
    /\ coll.pc[w] = "ensure"
    /\ coll' = [coll EXCEPT !.pc[w] = IF coll.exists THEN "upsert" ELSE "recreate"]
    /\ UNCHANGED <<failure, attempt, search, reply, served, histVars, embedVars, ingestVars, chatVars>>

\* ensure_collection: client.recreate_collection(...), which deletes the
\* collection when there is one and creates an empty one.
RecreateCollection(w) ==
    /\ coll.pc[w] = "recreate"
    /\ coll' = [coll EXCEPT !.pc[w] = "upsert", !.exists = TRUE, !.points = {}]
    /\ UNCHANGED <<failure, attempt, search, reply, served, histVars, embedVars, ingestVars, chatVars>>

\* upsert_embeddings: client.upsert(points, wait=True) returns; the call is
\* acknowledged.
UpsertPoints(w) ==
    LET point == UpsertPoint(w, coll.calls[w])
    IN  /\ coll.pc[w] = "upsert"
        /\ coll.exists
        /\ coll' = [coll EXCEPT !.pc[w] = "idle",
                                !.points = @ \cup {point},
                                !.acked = @ \cup {point}]
        /\ UNCHANGED <<failure, attempt, search, reply, served, histVars, embedVars, ingestVars, chatVars>>

InitUpsert ==
    /\ Init
    /\ fileText = [d \in Docs |-> "a"]

NextUpsert ==
    \E w \in Workers :
        \/ UpsertBegins(w)
        \/ CollectionExists(w)
        \/ RecreateCollection(w)
        \/ UpsertPoints(w)

SpecUpsert ==
    InitUpsert /\ [][NextUpsert]_vars

\* ============================================================== properties
\* A run is in progress from _mark_started until it reached completed or error.
InProgress(w) ==
    run[w].pc \notin {"idle", "returned", "raised"}

\* The stage whose call ended the run with an exception.
FailedStage(w) ==
    run[w].calls[Len(run[w].calls)]

\* The points this run created that are still in the collection.
CreatedPointsLeft(w) ==
    {p \in points : p.pid \in run[w].created}

\* C1: whenever a run on document D has ended with status = error, no chunk row
\* of D and no vector point created in that run remains, also when the upsert
\* wrote the points and then raised.
C1_ErrorLeavesNothing ==
    \A w \in Workers :
        run[w].pc = "raised" =>
            /\ ChunksOf(run[w].document_id) = {}
            /\ CreatedPointsLeft(w) = {}

\* C2: after a successful run on D that produced N chunks, the chunk rows of D
\* have chunk_index exactly 0..N-1 (no gap, no duplicate), every chunk has
\* exactly one vector point, addressed by the chunk's logical_id, and every
\* point of D belongs to a chunk of D.
C2_DenseChunksOnePointEach ==
    \A w \in Workers :
        run[w].pc = "returned" =>
            LET d == run[w].document_id
                N == Len(run[w].chunks)
            IN  /\ Cardinality(ChunksOf(d)) = N
                /\ {c.chunk_index : c \in ChunksOf(d)} = 0..(N - 1)
                /\ \A c \in ChunksOf(d) :
                       Cardinality({p \in points : p.logical_id = LogicalId(c)}) = 1
                /\ \A p \in PointsOf(d) :
                       \E c \in ChunksOf(d) :
                           /\ p.logical_id = LogicalId(c)
                           /\ p.chunk_index = c.chunk_index

\* C2 witness: a second run on a document finished successfully with two chunks.
C2_Witness ==
    \E w \in Workers :
        /\ run[w].pc = "returned"
        /\ Len(run[w].chunks) = 2
        /\ run[w].prev.outcome # "none"
        /\ Cardinality(PointsOf(run[w].document_id)) = 2

\* C3: at most one run per document is in progress at a time: two runs that
\* have not yet reached completed or error are never on the same document.
C3_OneRunPerDocument ==
    \A w1, w2 \in Workers :
        (w1 # w2 /\ InProgress(w1) /\ InProgress(w2)) =>
            run[w1].document_id # run[w2].document_id

\* Document d has no orphan: every point of d has a chunk row of d with its
\* logical id, and every chunk row of d has a point.
NoOrphans(d) ==
    /\ \A p \in PointsOf(d) : \E c \in ChunksOf(d) : p.logical_id = LogicalId(c)
    /\ \A c \in ChunksOf(d) : \E p \in PointsOf(d) : p.logical_id = LogicalId(c)

\* C4: after any sequence of runs there are no orphans whenever no run is in
\* progress; stated for the case the claim singles out, a re-run that fails
\* (having written no point itself) after an earlier successful run.
C4_NoOrphansAfterFailedRerun ==
    \A w \in Workers :
        (/\ run[w].pc = "raised"
         /\ run[w].prev.outcome = "completed"
         /\ run[w].created = {}) =>
            NoOrphans(run[w].document_id)

\* C5: a document with status = completed has processing_progress = 100,
\* processing_completed_at not null and text_content not null.
C5_CompletedIsWhole ==
    \A d \in Docs :
        doc[d].status = "completed" =>
            /\ doc[d].processing_progress = 100
            /\ doc[d].processing_completed_at # NULL
            /\ doc[d].text_content # NULL

\* C5 witness: a document is completed.
C5_Witness ==
    \E d \in Docs : doc[d].status = "completed"

\* The progress value of the stage completed before stage st.
ProgressBefore(st) ==
    CASE st = "ocr" -> 5
      [] st = "chunk" -> 35
      [] st = "embed_store" -> 70

\* C6: within one run the committed values of processing_progress never
\* decrease, and on failure the progress stays at the value of the last
\* completed stage (a failure in the chunk stage leaves 35).
C6_ProgressMonotoneAndFrozen ==
    \A w \in Workers :
        /\ \A i \in 1..(Len(run[w].committed) - 1) :
               run[w].committed[i] <= run[w].committed[i + 1]
        /\ run[w].pc = "raised" =>
               doc[run[w].document_id].processing_progress = ProgressBefore(FailedStage(w))

\* C6 witness: a run failed in the chunk stage and the document shows 35.
C6_Witness ==
    \E w \in Workers :
        /\ run[w].pc = "raised"
        /\ FailedStage(w) = "chunk"
        /\ run[w].committed = <<0, 5, 35, 35>>
        /\ doc[run[w].document_id].processing_progress = 35

ProcessingSteps ==
    {"upload", "ocr", "chunk", "embed_store", "completed", "error", NULL}

\* C8: every committed processing_step is one of upload, ocr, chunk,
\* embed_store, completed, error or null, and a successful run ends with
\* status = completed and processing_step = completed.
C8_StepsInDataModel ==
    /\ \A w \in Workers :
           \A i \in 1..Len(run[w].steps) : run[w].steps[i] \in ProcessingSteps
    /\ \A d \in Docs :
           /\ doc[d].processing_step \in ProcessingSteps
           /\ doc[d].status = "completed" => doc[d].processing_step = "completed"

\* C9: two successful runs in sequence on the same unchanged document (same
\* chunk_size) return the same set of logical ids, each of the form
\* "{document_id}_{chunk_index}", and nothing the first run created remains.
C9_RerunSameLogicalIds ==
    \A w \in Workers :
        (/\ run[w].pc = "returned"
         /\ run[w].prev.outcome = "completed"
         /\ run[w].prev.chunk_size = run[w].chunk_size) =>
            /\ Range(run[w].logical_ids) = run[w].prev.logical_ids
            /\ Range(run[w].logical_ids) =
                   {StableId(run[w].document_id, i - 1) : i \in 1..Len(run[w].chunks)}
            /\ \A c \in chunks : c.id \notin run[w].prev.chunk_ids
            /\ \A p \in points : p.pid \notin run[w].prev.point_ids

\* The assistant messages stored for the turn being streamed.
AssistantOfTurn ==
    {i \in 1..Len(chatMessages) :
        /\ chatMessages[i].turn = stream.turn
        /\ chatMessages[i].role = "assistant"}

\* The user messages stored for the turn being streamed.
UserOfTurn ==
    {i \in 1..Len(chatMessages) :
        /\ chatMessages[i].turn = stream.turn
        /\ chatMessages[i].role = "user"}

\* C11: after a streamed ask has ended in any way (completed, provider failure
\* mid-stream, client disconnect) the session holds either both the user and
\* the assistant message of the turn or neither.
C11_StreamedTurnAtomic ==
    stream.pc \in {"done", "aborted"} =>
        (UserOfTurn # {} <=> AssistantOfTurn # {})

\* The deltas with content among those the provider emitted, in order.
RECURSIVE WithContent(_)
WithContent(ds) ==
    IF ds = <<>>
        THEN <<>>
        ELSE IF Head(ds) # ""
                 THEN <<Head(ds)>> \o WithContent(Tail(ds))
                 ELSE WithContent(Tail(ds))

\* C10 as stated: besides the above, once the client has disconnected
\* mid-stream (after it received a token, before the provider's stream ended),
\* no assistant message, partial or full, is stored for the turn.
C10_NoAssistantAfterDisconnect ==
    (stream.client = "gone" /\ stream.left_after >= 1) => AssistantOfTurn = {}

\* C10, amended: on the streaming paths the assistant message of a turn exists
\* only once the provider's token stream was consumed to its end without error;
\* its content is the concatenation, in the order received, of the tokens
\* forwarded to the client, which are all the provider's tokens with content;
\* and a turn cut short by a provider failure, or by a disconnect met while a
\* token was still to be forwarded, stores no assistant message.
C10_AssistantOnlyAfterFullStream ==
    stream.pc # "idle" =>
        /\ stream.forwarded = SubSeq(WithContent(stream.emitted), 1, Len(stream.forwarded))
        /\ AssistantOfTurn # {} =>
               /\ stream.pc = "done"
               /\ stream.cause = NULL
               /\ Cardinality(AssistantOfTurn) = 1
               /\ stream.forwarded = WithContent(stream.emitted)
               /\ \A i \in AssistantOfTurn :
                      /\ chatMessages[i].content = Join(stream.forwarded)
                      /\ chatMessages[i].session_id = stream.session_id
        /\ stream.pc = "aborted" => AssistantOfTurn = {}

\* C10 witness: a stream of two tokens was forwarded and stored as "xy".
C10_Witness ==
    /\ stream.pc = "done"
    /\ stream.forwarded = <<"x", "y">>
    /\ \E i \in AssistantOfTurn : chatMessages[i].content = "xy"

\* C10 witness of the other case: the client left after the first token and
\* the turn was cut short.
C10_WitnessAborted ==
    /\ stream.pc = "aborted"
    /\ stream.cause = "disconnect"
    /\ stream.forwarded = <<"x">>
    /\ stream.collected = <<"x", "y">>

\* The rows of a list, as a set.
RowsOf(rows) ==
    {rows[i] : i \in 1..Len(rows)}

C13_MostRecentInAppendOrder ==
    fetched.called =>
        LET n == Len(fetched.of)
            m == Min(fetched.limit, n)
        IN  fetched.rows = SubSeq(fetched.of, n - m + 1, n)

\* The list is sorted ascending by created_at.
SortedAscending(rows) ==
    \A i \in 1..(Len(rows) - 1) : rows[i].created_at <= rows[i + 1].created_at

\* C14 as stated: get_messages(S, k) is sorted ascending by created_at and is a
\* prefix in time of the session history: no message of S left out is older
\* than a returned one.
C14_SortedPrefixInTime ==
    fetched.called =>
        /\ SortedAscending(fetched.rows)
        /\ \A r \in RowsOf(fetched.rows) :
               \A o \in RowsOf(fetched.of) \ RowsOf(fetched.rows) :
                   r.created_at <= o.created_at

\* C14, amended: get_messages(S, k) holds min(k, n) distinct messages of S,
\* sorted ascending by created_at, and is the newest end in time of the session
\* history: no message of S left out is newer than a returned one.
C14_SortedNewestInTime ==
    fetched.called =>
        /\ Len(fetched.rows) = Min(fetched.limit, Len(fetched.of))
        /\ Cardinality(RowsOf(fetched.rows)) = Len(fetched.rows)
        /\ RowsOf(fetched.rows) \subseteq RowsOf(fetched.of)
        /\ \A r \in RowsOf(fetched.rows) : r.session_id = fetched.session_id
        /\ SortedAscending(fetched.rows)
        /\ \A r \in RowsOf(fetched.rows) :
               \A o \in RowsOf(fetched.of) \ RowsOf(fetched.rows) :
                   o.created_at <= r.created_at

\* C14 witness: two of the three messages of a session were fetched, the
\* second written at a later tick than the first.
C14_Witness ==
    /\ fetched.called
    /\ Len(fetched.of) = 3
    /\ Len(fetched.rows) = 2
    /\ fetched.rows[1].created_at < fetched.rows[2].created_at

\* C15: add_message rejects a role outside {user, assistant, system}, so every
\* stored chat message has a role in that set.
C15_RolesValidated ==
    \A i \in 1..Len(chatMessages) : chatMessages[i].role \in Roles

\* The vectors the provider can return for a text.
VectorsOf(text) ==
    {Embedding(text, g) : g \in ProviderGens}

\* C16 as stated: a second embed_with_cache(T) made within the cache TTL after
\* a first successful embed_with_cache(T) returns the first call's vectors and
\* issues zero provider requests (here with the cache backend serving every
\* read and write of both calls).
C16_RepeatWithinTtl ==
    (/\ embedCall.repeat_of.is
     /\ embedCall.repeat_of.cache_ok
     /\ embedCall.read_ok
     /\ embedCall.at - embedCall.repeat_of.at < EMBED_CACHE_TTL) =>
        /\ embedCall.outcome = "ok"
        /\ embedCall.requests = <<>>
        /\ embedCall.result = embedCall.repeat_of.result

\* C16, amended: with the cache backend serving the reads and writes of both
\* calls, a second embed_with_cache(T) made while every text of T still has the
\* cache entry it had when the first successful embed_with_cache(T) returned
\* (an entry lives for the TTL from its write; a hit does not renew it) returns
\* the first call's vectors and issues zero provider requests.
C16_RepeatWhileEntriesLive ==
    (/\ embedCall.repeat_of.is
     /\ embedCall.repeat_of.cache_ok
     /\ embedCall.read_ok
     /\ embedCall.at < embedCall.repeat_of.live_until) =>
        /\ embedCall.outcome = "ok"
        /\ embedCall.requests = <<>>
        /\ embedCall.result = embedCall.repeat_of.result

\* C16 witness: two texts embedded again at a later tick, from the cache.
C16_Witness ==
    /\ embedCall.repeat_of.is
    /\ embedCall.repeat_of.cache_ok
    /\ embedCall.read_ok
    /\ embedCall.texts = <<"a", "b">>
    /\ embedCall.at > embedCall.repeat_of.at
    /\ embedCall.requests = <<>>
    /\ embedCall.result = embedCall.repeat_of.result

\* The positions of the input the cache had no vector for.
MissingOf(call) ==
    {i \in 1..Len(call.cached) : call.cached[i] = NULL}

C18_CacheFailureNeverFails ==
    embedCall.outcome # "none" =>
        /\ embedCall.outcome = "raised" => embedCall.provider_failed
        /\ (~embedCall.read_ok /\ embedCall.texts # <<>>) =>
               embedCall.requests = <<embedCall.texts>>
        /\ (~embedCall.read_ok /\ embedCall.outcome = "ok") =>
               \A i \in 1..Len(embedCall.texts) :
                   embedCall.result[i] \in VectorsOf(embedCall.texts[i])

\* C18 witness: the read and the write of the cache failed and the call
\* returned two vectors.
C18_Witness ==
    /\ embedCall.outcome = "ok"
    /\ ~embedCall.read_ok
    /\ embedCall.write = "execute_failed"
    /\ Len(embedCall.result) = 2


\* The candidates of the answered search that pass its score threshold, in the
\* store's order.
PassingCandidates ==
    IF search.has_threshold
        THEN SelectSeq(search.candidates,
                       LAMBDA p : ScoreOrZero(p) >= search.score_threshold)
        ELSE search.candidates

\* C19: semantic_search returns at most top_k hits; with a threshold every hit
\* has score >= score_threshold, also when the store did not enforce it;
\* without MMR the hits are the first top_k threshold-passing candidates in
\* the store's order; total_candidates counts the threshold-passing candidates.
C19_SearchContract ==
    search.called =>
        /\ Len(search.hits) <= search.top_k
        /\ search.has_threshold =>
               \A i \in 1..Len(search.hits) :
                   search.hits[i].score >= search.score_threshold
        /\ ~search.use_mmr =>
               /\ Len(search.hits) = Min(search.top_k, Len(PassingCandidates))
               /\ \A i \in 1..Len(search.hits) :
                      search.hits[i].id = PassingCandidates[i].id
        /\ search.total_candidates = Len(PassingCandidates)

\* A search without MMR whose store did not enforce the threshold: candidates
\* below it came back and were dropped, and the hits are the passing ones.
C19_Witness ==
    /\ search.called
    /\ search.has_threshold
    /\ ~search.use_mmr
    /\ Len(search.candidates) > Len(PassingCandidates)
    /\ Len(PassingCandidates) >= 1
    /\ Len(search.hits) = Len(PassingCandidates)
    /\ search.top_k > Len(search.hits)

\* answer_question or stream_answer got as far as its answer.
Replied ==
    reply.called /\ reply.outcome \notin {"raised", "searched"}

\* The total text length of a list of hits.
RECURSIVE TextLength(_)
TextLength(hits) ==
    IF hits = <<>> THEN 0 ELSE Head(hits).text_len + TextLength(Tail(hits))

\* C20: the contexts given to the LLM and returned as hits_used are the longest
\* prefix of the retrieved hits, in retrieval order, whose total text length
\* does not exceed max_context_chars; when the first hit alone exceeds the
\* budget, zero contexts are used and the LLM is still called.
C20_ContextsLongestPrefix ==
    Replied =>
        LET n == Len(reply.contexts)
        IN  /\ n <= Len(reply.hits)
            /\ reply.contexts = SubSeq(reply.hits, 1, n)
            /\ n >= 1 => TextLength(reply.contexts) <= reply.max_context_chars
            /\ n < Len(reply.hits) =>
                   TextLength(SubSeq(reply.hits, 1, n + 1)) > reply.max_context_chars
            /\ reply.llm_called =>
                   reply.prompt = [i \in 1..n |-> reply.hits[i].id]
            /\ (reply.hits # <<>> /\ reply.hits[1].text_len > reply.max_context_chars) =>
                   /\ reply.contexts = <<>>
                   /\ reply.llm_called

\* A document-name question whose first hit alone exceeds the budget while the
\* second hit would fit: no context is used and the LLM was called.
C20_Witness ==
    /\ Replied
    /\ reply.question = "document_name"
    /\ Len(reply.hits) >= 2
    /\ reply.hits[1].text_len > reply.max_context_chars
    /\ reply.hits[2].text_len <= reply.max_context_chars
    /\ reply.hits[2].has_document_id
    /\ reply.contexts = <<>>
    /\ reply.llm_called


\* C21: the prompt of answer_question and stream_answer holds exactly the last
\* min(max_history_messages, n) messages of the given history, in their
\* order, and no history message when max_history_messages = 0.
C21_PromptHistoryIsLastMessages ==
    Replied =>
        LET n == Len(reply.history)
            kept == Min(reply.max_history_messages, n)
        IN  /\ Len(reply.history_block) = kept
            /\ \A i \in 1..kept :
                   reply.history_block[i] =
                       reply.history[n - kept + i].role \o ": "
                           \o reply.history[n - kept + i].content
            /\ reply.max_history_messages = 0 => reply.history_block = <<>>

\* Three messages of history and a limit of two: the prompt holds the two
\* newest ones.
C21_Witness ==
    /\ Replied
    /\ Len(reply.history) = 3
    /\ reply.max_history_messages = 2
    /\ reply.history_block = <<"assistant: a1", "user: q2">>


\* C22: once a document is soft-deleted no user-facing query returns it or its
\* content: list and get omit it, ingest on it is not_found, and search and
\* chat retrieval return no hit whose payload document_id is that document.
C22_DeletedNeverReturned ==
    /\ served.docs \cap served.deleted = {}
    /\ (served.kind \in {"get", "ingest"} /\ served.document_id \in served.deleted)
           => served.status = 404


\* C23: every domain error (AppError) raised while a request is served reaches
\* the client unchanged: the response has the error's own HTTP status, code,
\* message and details, on every endpoint, POST /chat/ask included.
C23_AppErrorUnchanged ==
    failure.raised.class = "AppError" =>
        /\ failure.status_code = failure.raised.status_code
        /\ failure.code = failure.raised.code
        /\ failure.message = failure.raised.message
        /\ failure.details = failure.raised.details


\* C24: a delete of chunk rows of a document happens only after the delete of
\* the corresponding vector points: whenever a step removes a chunk row, no
\* point with that chunk's logical id is in the collection any more.
C24_VectorsDeletedBeforeChunks ==
    [][\A c \in chunks \ chunks' :
           ~\E p \in points :
               p.document_id = c.document_id /\ p.logical_id = LogicalId(c)]_vars


\* C25: on a pipeline failure both rollback steps are attempted even if one of
\* them fails, the document is still marked error afterwards, and the
\* exception that reaches the caller of run() is the original stage
\* exception.
C25_FailureHandledDespiteRollbackFailure ==
    \A w \in Workers :
        run[w].pc = "raised" =>
            /\ doc[run[w].document_id].status = "error"
            /\ doc[run[w].document_id].last_error = run[w].exc
            /\ Propagated(run[w]) = run[w].exc


\* The exception behind the message a failed stage left in the run: the
\* ValueError of chunk_document, the UpstreamServiceError of the embedding
\* client and of the vector store, or another exception.
StageException(message) ==
    CASE message = "Document has no text_content. Run OCR first." ->
             Exc("ValueError", 0, "", message, NULL)
      [] message \in {"Vector store unavailable", "Embedding provider failed"} ->
             Exc("AppError", 502, "upstream_error", message, "provider")
      [] OTHER -> Exc("RuntimeError", 0, "", message, NULL)

\* The HTTP status POST /documents/{id}/ingest answers for a run that raised.
IngestStatus(r) ==
    ErrorResponse(HandlerRaises("ingest", StageException(Propagated(r))), TRUE).status_code

\* C29: POST /documents/{id}/ingest answers not_found (404) exactly when the
\* document is missing or soft-deleted: a failure raised inside a pipeline
\* stage, after the document was found, is never reported as not_found.
C29_StageFailureNotNotFound ==
    \A w \in Workers :
        run[w].pc = "raised" => IngestStatus(run[w]) # 404


\* The classes the transient-failure classifier is to accept, of those an
\* attempt can raise here: timeouts, connection errors, rate limits and the
\* retryable statuses.
TransientByPolicy(exc) ==
    /\ exc.class # "AppError"
    /\ \/ exc.class \in {"TimeoutError", "ConnectionError", "RateLimitError"}
       \/ exc.status_code \in {408, 429, 500, 502, 503, 504}

\* C26: a retry_transient function is invoked at most RETRY_MAX_ATTEMPTS times
\* per call, is invoked again only after a transient failure (an AppError is
\* never transient and ends the call after one attempt), and on exhaustion the
\* exception of the last attempt propagates unchanged.
C26_RetryPolicy ==
    LET n == Len(attempt.raised)
    IN  /\ attempt.invocations <= RETRY_MAX_ATTEMPTS
        /\ \A i \in 1..n :
               (i < n \/ attempt.pc \in {"running", "returned"})
                   => TransientByPolicy(attempt.raised[i])
        /\ \A i \in 1..n :
               attempt.raised[i].class = "AppError"
                   => (i = n /\ attempt.pc = "raised")
        /\ attempt.pc = "raised" =>
               /\ n = attempt.invocations
               /\ attempt.propagated = attempt.raised[n].class
               /\ n = RETRY_MAX_ATTEMPTS \/ ~TransientByPolicy(attempt.raised[n])

\* A call whose attempts all failed transiently: the last possible attempt
\* was made and its exception, not the first one, propagated.
C26_Witness ==
    /\ attempt.pc = "raised"
    /\ attempt.invocations = RETRY_MAX_ATTEMPTS
    /\ attempt.raised[1].class = "TimeoutError"
    /\ attempt.propagated = "RateLimitError"


\* C30: ensure_collection never removes points that are already in the
\* collection: under any interleaving of concurrent upsert_embeddings calls
\* every point whose upsert was acknowledged is still in the collection.
C30_AcknowledgedPointsKept ==
    coll.acked \subseteq coll.points


\* The candidates mmr_rerank was given by the search that used it: those that
\* pass the threshold, in the store's order.
MmrCandidates == PassingCandidates

\* The candidates mmr_rerank returned, in the order it picked them.
MmrPicks ==
    [k \in 1..Len(search.hits) |->
        CHOOSE p \in SearchPoints : p.id = search.hits[k].id]

\* lambda * cos(q, c) - (1 - lambda) * max over selected s of cos(c, s).
MmrValue(c, selected) ==
    search.mmr_lambda * CosineSimilarity("x", c.vector)
        - (100 - search.mmr_lambda) * SimToSelected(c, selected)

\* The candidates not yet selected when the k-th pick is made.
MmrPool(k) ==
    {MmrCandidates[i] : i \in 1..Len(MmrCandidates)} \ {MmrPicks[j] : j \in 1..(k - 1)}

\* The place of a candidate in the list mmr_rerank was given.
InputPosition(c) ==
    CHOOSE i \in 1..Len(MmrCandidates) : MmrCandidates[i] = c

====
